---- MODULE Spec2Model ----
(***************************************************************************)
(* A model of the xid identifier generator and codec (package xid).        *)
(*                                                                         *)
(* An ID is a sequence of 12 bytes.  TLC's integers are 32-bit signed, so  *)
(* a uint32 is kept as two 16-bit limbs <<hi, lo>> and the int64 Unix      *)
(* clock as <<era, hi, lo>> (era = the bits above the low 32): every       *)
(* conversion keeps the width the Go code has.                             *)
(***************************************************************************)
EXTENDS Integers, Sequences, FiniteSets, TLC

VARIABLES
    now,              \* time.Now().Unix(), the wall clock shared by the processes
    objectIDCounter,  \* per process: the uint32 counter New() increments
    machineID,        \* per process: the cached 3-byte machine identity
    pid,              \* per process: os.Getpid()
    pc,               \* per goroutine: its position inside New()
    cur,              \* per goroutine: the local variable id of New()
    meta,             \* per goroutine: bookkeeping of the call in progress
    issued,           \* history: the identifiers returned, in order of return
    calls,            \* history, per process: number of increments done by New()
    carried,          \* history, per process: number of New() calls per Timestamp
    steps,            \* history: number of calls of New() followed step by step
    monotone,         \* history: the clock never went backwards
    seed,             \* history, per process: the value randInt() returned
    boot,             \* per process: how far the package initialisation has got
    src,              \* codec: the identifier an operation is applied to
    other,            \* codec: the second identifier of a comparison
    txt,              \* codec: the text handed to FromString, a sequence of bytes
    from,             \* codec: where txt comes from
    got,              \* codec: what the last FromString returned
    cmp,              \* codec: the results of the comparisons made
    recv,             \* codec: the ID variable UnmarshalText and Scan are called on
    rerr,             \* codec: the error the last UnmarshalText or Scan returned,
                      \*        and what the receiver held before that call
    val,              \* codec: the value handed to FromBytes and Scan
    parts,            \* codec: what Time, Machine, Pid and Counter returned
    list,             \* codec: a slice of identifiers (IDList)
    order             \* codec: the results of Compare on pairs of list elements

initVars == <<seed, boot>>

genVars == <<now, objectIDCounter, machineID, pid, pc, cur, meta, issued,
             calls, carried, steps, monotone, initVars>>

importVars == <<recv, rerr, val, parts, list, order>>

codecVars == <<src, other, txt, from, got, cmp, importVars>>

vars == <<genVars, codecVars>>

----------------------------------------------------------------------------
(* Bounds of the model *)

\* Calls of New() followed step by step, over all goroutines.
MaxCalls == 3

\* One process running two goroutines, whose calls of New() interleave.
Procs == {"p1"}
Goroutines == {<<"p1", 1>>, <<"p1", 2>>}

\* Two processes, one goroutine each, which share nothing but the clock.
CrossProcs == {"p1", "p2"}
CrossGoroutines == {<<"p1", 1>>, <<"p2", 1>>}

ProcOf(g) == g[1]

\* Unix clock readings <<era, hi, lo>>: two seconds of 2011 (0x4d88e15b and
\* 0x4d88e200) and the first second a uint32 no longer holds (2^32, in 2106).
ClockValues == { <<0, 19848, 57691>>, <<0, 19848, 57856>>, <<1, 0, 0>> }
FirstClock == <<0, 19848, 57691>>

\* Triples of bytes rand.Reader may deliver (0x412dfe, 0xfffffe).
RandBytes == { <<65, 45, 254>>, <<255, 255, 254>> }

\* randInt(): uint32(b[0])<<16 | uint32(b[1])<<8 | uint32(b[2]), as <<hi, lo>>.
randInt(b) == <<b[1], b[2] * 256 + b[3]>>

\* What the initialisation of the package may leave in a process: the seed
\* randInt() returns, the machine identity readMachineID() returns, and the
\* process id os.Getpid() returns.
Boots == { [seed |-> randInt(<<65, 45, 254>>), machine |-> <<96, 244, 134>>,
            pid |-> 58408],
           [seed |-> randInt(<<255, 255, 254>>), machine |-> <<170, 187, 204>>,
            pid |-> 70000] }

\* Numbers of discarded New() calls a benchmark loop makes in one go.
BurstSizes == { 2^24 - 1 }

\* Calls of New() a process makes in all: one lap of the 24-bit counter and
\* the calls followed step by step.
MaxHistory == 2^24 + MaxCalls

----------------------------------------------------------------------------
(* Byte-level helpers *)

\* Mutant: the length of an ID counted with a 2-byte counter field.
rawLen_Short == 4 + 3 + 2 + 2

rawLen == 12

Byte(x) == x % 256

\* uint32(t) of an int64 clock reading: the low 32 bits.
Uint32(t) == <<t[2], t[3]>>

\* Mutant: binary.LittleEndian.PutUint32.
PutUint32_LittleEndian(v) == <<v[2] % 256, v[2] \div 256, v[1] % 256, v[1] \div 256>>

\* binary.BigEndian.PutUint32
PutUint32(v) == <<v[1] \div 256, v[1] % 256, v[2] \div 256, v[2] % 256>>

\* Mutant: the counter is 16 bits wide, the carry out of them is lost.
AddUint32_Carry16(c, d) == <<c[1], (c[2] + d) % 65536>>

\* Mutant: the value before the increment is returned and the sum is lost.
AddUint32_Stale(c, d) == c

\* atomic.AddUint32(&c, d): the post-increment value, modulo 2^32.
AddUint32(c, d) ==
    LET lo == c[2] + d
    IN  <<(c[1] + (lo \div 65536)) % 65536, lo % 65536>>

\* Mutant: the three assignments are missing, id[4..6] stay zero.
PutMachine_Unset(m) == <<0, 0, 0>>

\* id[4..6] = machineID[0..2]
PutMachine(m) == <<m[1], m[2], m[3]>>

\* Mutant: the two bytes are written low byte first.
PutPid_Swapped(p) == <<Byte(p), Byte(p \div 256)>>

\* Mutant: the shift is missing, id[7] = byte(pid).
PutPid_NoShift(p) == <<Byte(p), Byte(p)>>

\* id[7] = byte(pid >> 8); id[8] = byte(pid)
PutPid(p) == <<Byte(p \div 256), Byte(p)>>

\* Mutant: id[11] = byte(i >> 8), the low byte of the counter is lost.
PutCounter_Typo(i) == <<Byte(i[1]), Byte(i[2] \div 256), Byte(i[2] \div 256)>>

\* Mutant: the counter is written low byte first.
PutCounter_LittleEndian(i) == <<Byte(i[2]), Byte(i[2] \div 256), Byte(i[1])>>

\* Mutant: id[10] = byte(i); id[11] = byte(i >> 8).
PutCounter_Swapped(i) == <<Byte(i[1]), Byte(i[2]), Byte(i[2] \div 256)>>

\* id[9] = byte(i >> 16); id[10] = byte(i >> 8); id[11] = byte(i)
PutCounter(i) == <<Byte(i[1]), Byte(i[2] \div 256), Byte(i[2])>>

nilID == [k \in 1..rawLen |-> 0]

----------------------------------------------------------------------------
(* Field extraction *)

\* Time(): seconds since the epoch, the big-endian uint32 of bytes 0..3, as
\* <<hi, lo>>.
Time(id) == <<id[1] * 256 + id[2], id[3] * 256 + id[4]>>

Machine(id) == <<id[5], id[6], id[7]>>

\* Mutant: binary.LittleEndian.Uint16.
Pid_LittleEndian(id) == id[9] * 256 + id[8]

\* Pid(): binary.BigEndian.Uint16(id[7:9])
Pid(id) == id[8] * 256 + id[9]

\* Mutant: the shift of b[0] by 16 is lost.
Counter_TwoBytes(id) == id[11] * 256 + id[12]

\* Counter(): int32(uint32(b[0])<<16 | uint32(b[1])<<8 | uint32(b[2])), b = id[9:12]
Counter(id) == id[10] * 65536 + id[11] * 256 + id[12]

----------------------------------------------------------------------------
(* Comparison *)

\* bytes.Compare(id[:], other[:]): the sign of the first differing byte.
Compare(a, b) ==
    LET D == {k \in 1..rawLen : a[k] # b[k]}
    IN  IF D = {} THEN 0
        ELSE LET k == CHOOSE x \in D : \A y \in D : x <= y
             IN  IF a[k] < b[k] THEN -1 ELSE 1

\* Order of limb sequences of one length (clock readings, timestamps).
LimbLess(s, t) ==
    \E k \in 1..Len(s) : s[k] < t[k] /\ \A j \in 1..(k - 1) : s[j] = t[j]

----------------------------------------------------------------------------
(* Text form: base32 with the "hex" alphabet, lower case, without padding *)

trimLen == 20
encodedLen == 24
decodedLen == 15

\* Mutant: the alphabet of base32.StdEncoding, A-Z then 2-7.
EncodeChar_Std(v) == IF v < 26 THEN 65 + v ELSE 24 + v

\* The alphabet of base32.HexEncoding: "0123456789ABCDEFGHIJKLMNOPQRSTUV".
EncodeChar(v) == IF v < 10 THEN 48 + v ELSE 55 + v

\* The decode map of base32.HexEncoding; 255 marks a byte outside the alphabet.
DecodeChar(c) ==
    IF c >= 48 /\ c <= 57 THEN c - 48
    ELSE IF c >= 65 /\ c <= 86 THEN c - 55
    ELSE 255

\* bytes.ToLower and bytes.ToUpper, on one ASCII byte.
ToLower(c) == IF c >= 65 /\ c <= 90 THEN c + 32 ELSE c
ToUpper(c) == IF c >= 97 /\ c <= 122 THEN c - 32 ELSE c

\* Byte n (from 0) of s, 0 past its end.
At0(s, n) == IF n < Len(s) THEN s[n + 1] ELSE 0

\* The 5 bits of b that start at bit 5k.
Quintet(b, k) ==
    LET n == (5 * k) \div 8
        r == (5 * k) % 8
    IN  ((At0(b, n) * 256 + At0(b, n + 1)) \div 2^(11 - r)) % 32

\* base32.HexEncoding.Encode: 8 characters for every 5 bytes begun, '=' where
\* there is no data.
Base32Encode(b) ==
    [k \in 1..(((Len(b) + 4) \div 5) * 8) |->
        IF 5 * (k - 1) < 8 * Len(b) THEN EncodeChar(Quintet(b, k - 1)) ELSE 61]

\* Mutant: bytes.ToLower is missing.
MarshalText_Upper(id) == SubSeq(Base32Encode(id), 1, trimLen)

\* MarshalText() and String(): the first 20 characters, lower case.
MarshalText(id) == [k \in 1..trimLen |-> ToLower(Base32Encode(id)[k])]

\* The 8 bits that start at bit 8j of the 5-bit values v.
Octet(v, j) ==
    LET c == (8 * j) \div 5
        r == (8 * j) % 5
    IN  ((At0(v, c) * 1024 + At0(v, c + 1) * 32 + At0(v, c + 2)) \div 2^(7 - r)) % 256

\* base32.HexEncoding.Decode of data characters followed by "====": the whole
\* bytes of the data, the bits left over dropped; at a byte outside the alphabet
\* it stops with an error, having written the 8-character blocks before it.
Base32Decode(t) ==
    LET data == SelectSeq(t, LAMBDA c : c # 61)
        v == [k \in 1..Len(data) |-> DecodeChar(data[k])]
        bad == {k \in 1..Len(v) : v[k] = 255}
    IN  IF bad = {}
        THEN [bytes |-> [j \in 1..((5 * Len(v)) \div 8) |-> Octet(v, j - 1)],
              err |-> "nil"]
        ELSE LET k == CHOOSE x \in bad : \A y \in bad : x <= y
                 whole == SubSeq(v, 1, 8 * ((k - 1) \div 8))
             IN  [bytes |-> [j \in 1..((5 * Len(whole)) \div 8) |-> Octet(whole, j - 1)],
                  err |-> "CorruptInputError"]

\* Mutant: the check is made on the upper-cased text, A-V pass as a-v do.
InAlphabet_AnyCase(c) ==
    (c >= 48 /\ c <= 57) \/ (c >= 97 /\ c <= 118) \/ (c >= 65 /\ c <= 86)

\* The check of UnmarshalText on each byte of the text.
InAlphabet(c) == (c >= 48 /\ c <= 57) \/ (c >= 97 /\ c <= 118)

\* (id *ID) UnmarshalText(text): the receiver afterwards and the error returned.
UnmarshalText(id, text) ==
    IF Len(text) # trimLen THEN [id |-> id, err |-> "ErrInvalidID"]
    ELSE IF \E k \in 1..Len(text) : ~InAlphabet(text[k])
         THEN [id |-> id, err |-> "ErrInvalidID"]
    ELSE LET d == Base32Decode([k \in 1..Len(text) |-> ToUpper(text[k])]
                                  \o <<61, 61, 61, 61>>)
             b == [k \in 1..decodedLen |-> At0(d.bytes, k - 1)]
         IN  [id |-> [k \in 1..rawLen |-> b[k]], err |-> d.err]

\* FromString(id): UnmarshalText on a fresh ID.
FromString(text) == UnmarshalText(nilID, text)

\* Comparison of two strings by character code, as Go compares strings.
TextCompare(s, t) ==
    LET m == IF Len(s) < Len(t) THEN Len(s) ELSE Len(t)
        D == {k \in 1..m : s[k] # t[k]}
    IN  IF D = {}
        THEN (IF Len(s) = Len(t) THEN 0 ELSE IF Len(s) < Len(t) THEN -1 ELSE 1)
        ELSE LET k == CHOOSE x \in D : \A y \in D : x <= y
             IN  IF s[k] < t[k] THEN -1 ELSE 1

\* Comparison of the tuples (Timestamp, Machine, Process, Counter).
FieldCompare(a, b) ==
    IF Time(a) # Time(b) THEN (IF LimbLess(Time(a), Time(b)) THEN -1 ELSE 1)
    ELSE IF Machine(a) # Machine(b)
         THEN (IF LimbLess(Machine(a), Machine(b)) THEN -1 ELSE 1)
    ELSE IF Pid(a) # Pid(b) THEN (IF Pid(a) < Pid(b) THEN -1 ELSE 1)
    ELSE IF Counter(a) # Counter(b) THEN (IF Counter(a) < Counter(b) THEN -1 ELSE 1)
    ELSE 0

----------------------------------------------------------------------------
(* The identifiers and texts the codec is applied to *)

\* ID{0x4d, 0x88, 0xe1, 0x5b, 0x60, 0xf4, 0x86, 0xe4, 0x28, 0x41, 0x2d, 0xc9}
TestID == <<77, 136, 225, 91, 96, 244, 134, 228, 40, 65, 45, 201>>

\* ID{0x00, 0x00, 0x00, 0x00, 0xaa, 0xbb, 0xcc, 0xdd, 0xee, 0x00, 0x00, 0x01}
TestID2 == <<0, 0, 0, 0, 170, 187, 204, 221, 238, 0, 0, 1>>

BaseIDs == {nilID, TestID, [k \in 1..rawLen |-> 255]}

SampleBytes == {0, 1, 128, 255}

\* Every base identifier with one of its bytes replaced.
SampleIDs == {[b EXCEPT ![k] = v] : b \in BaseIDs, k \in 1..rawLen, v \in SampleBytes}

\* "9m4e2mr0ui3e8a215n4g", "c6e52g2mrqcjl44hf179", "9M4E2MR0UI3E8A215N4G", "invalid"
TextTestID ==
    <<57, 109, 52, 101, 50, 109, 114, 48, 117, 105, 51, 101, 56, 97, 50, 49, 53,
      110, 52, 103>>
TextUnusedBits ==
    <<99, 54, 101, 53, 50, 103, 50, 109, 114, 113, 99, 106, 108, 52, 52, 104, 102,
      49, 55, 57>>
TextUpper ==
    <<57, 77, 52, 69, 50, 77, 82, 48, 85, 73, 51, 69, 56, 65, 50, 49, 53, 78, 52, 71>>
TextInvalid == <<105, 110, 118, 97, 108, 105, 100>>

\* "9m4e2mr0ui3e8a215n4" and "9m4e2mr0ui3e8a215n4g0": 19 and 21 characters.
TextShort == SubSeq(TextTestID, 1, trimLen - 1)
TextLong == TextTestID \o <<48>>

SampleTexts == {TextTestID, TextUnusedBits, TextUpper, TextInvalid, TextShort, TextLong}

\* What the ID variable holds before UnmarshalText is called on it.
Receivers == {nilID, TestID}

\* The bytes a test writes over one character: '0' '1' 'g' 'v' inside the
\* alphabet, '/' 'V' 'w' outside it.
TamperChars == {48, 49, 103, 118, 47, 86, 119}

NoResult == [id |-> nilID, err |-> "none"]
NoErr == [err |-> "none", was |-> nilID]
NoValue == [kind |-> "none", b |-> <<>>]
NoParts == [time |-> <<0, 0>>, machine |-> <<>>, pid |-> 0, counter |-> 0]
\* Each result is the set of the values returned so far: none, or one.
NoCmp == [ids |-> {}, texts |-> {}, fields |-> {}]

\* No codec operation in the picture.
CodecIdle ==
    /\ src = nilID
    /\ other = nilID
    /\ txt = <<>>
    /\ from = "none"
    /\ got = NoResult
    /\ cmp = NoCmp

\* No import, field extraction or list of identifiers in the picture.
ImportIdle ==
    /\ recv = nilID
    /\ rerr = NoErr
    /\ val = NoValue
    /\ parts = NoParts
    /\ list = <<>>
    /\ order = <<>>

----------------------------------------------------------------------------
(* The generator *)

Timestamps == {Uint32(t) : t \in ClockValues}

NoMeta == [began |-> 0, sec |-> FirstClock, seq |-> 0, i |-> <<0, 0>>]

\* The package initialisation of a process: st is "start" before it, "seeded"
\* once objectIDCounter is set, "ready" once machineID is set, "panic" if it
\* panicked (in by); hostname and hostErr are what os.Hostname() returned,
\* fallback and randErr what rand.Reader.Read(id) did in readMachineID.
NotBooted ==
    [st |-> "start", by |-> "", asked |-> FALSE, hostname |-> "", hostErr |-> FALSE,
     fallback |-> <<>>, randErr |-> FALSE]

\* Initialisation done, the machine identity m being one rand.Reader gave.
Booted(m) ==
    [NotBooted EXCEPT !.st = "ready", !.asked = TRUE, !.hostErr = TRUE, !.fallback = m]

\* The state once the package is initialised in each process of P, the
\* goroutines G not yet in New().
Start(P, G) ==
    /\ now = FirstClock
    /\ \E f \in [P -> Boots] :
          /\ objectIDCounter = [p \in P |-> f[p].seed]
          /\ machineID = [p \in P |-> f[p].machine]
          /\ pid = [p \in P |-> f[p].pid]
          /\ seed = [p \in P |-> f[p].seed]
          /\ boot = [p \in P |-> Booted(f[p].machine)]
    /\ pc = [g \in G |-> "idle"]
    /\ cur = [g \in G |-> nilID]
    /\ meta = [g \in G |-> NoMeta]
    /\ issued = <<>>
    /\ calls = [p \in P |-> 0]
    /\ carried = [p \in P |-> [ts \in Timestamps |-> 0]]
    /\ steps = 0
    /\ monotone = TRUE
    /\ CodecIdle
    /\ ImportIdle

Init == Start(Procs, Goroutines)

InitCross == Start(CrossProcs, CrossGoroutines)

\* The wall clock reaches a later second.
Tick(t) ==
    /\ LimbLess(now, t)
    /\ now' = t
    /\ UNCHANGED <<objectIDCounter, machineID, pid, pc, cur, meta, issued,
                   calls, carried, steps, monotone>>
    /\ UNCHANGED <<initVars, codecVars>>

\* The wall clock is set back to an earlier second (an adjustment of the
\* system time); the model follows one such adjustment.
ClockReset(t) ==
    /\ monotone
    /\ LimbLess(t, now)
    /\ now' = t
    /\ monotone' = FALSE
    /\ UNCHANGED <<objectIDCounter, machineID, pid, pc, cur, meta, issued,
                   calls, carried, steps>>
    /\ UNCHANGED <<initVars, codecVars>>

\* New(), up to the increment: timestamp, machine and pid are written.
NewBegin(g) ==
    LET p == ProcOf(g) IN
    /\ boot[p].st = "ready"
    /\ pc[g] = "idle"
    /\ steps < MaxCalls
    /\ cur' = [cur EXCEPT ![g] = PutUint32(Uint32(now)) \o PutMachine(machineID[p])
                                  \o PutPid(pid[p]) \o <<0, 0, 0>>]
    /\ meta' = [meta EXCEPT ![g] = [NoMeta EXCEPT !.began = Len(issued), !.sec = now]]
    /\ carried' = [carried EXCEPT ![p][Uint32(now)] = @ + 1]
    /\ steps' = steps + 1
    /\ pc' = [pc EXCEPT ![g] = "incr"]
    /\ UNCHANGED <<now, objectIDCounter, machineID, pid, issued, calls, monotone>>
    /\ UNCHANGED <<initVars, codecVars>>

\* New(): the atomic increment and the three counter bytes.
NewIncrement(g) ==
    LET p == ProcOf(g)
        i == AddUint32(objectIDCounter[p], 1)
    IN
    /\ pc[g] = "incr"
    /\ objectIDCounter' = [objectIDCounter EXCEPT ![p] = i]
    /\ cur' = [cur EXCEPT ![g] = SubSeq(@, 1, 9) \o PutCounter(i)]
    /\ calls' = [calls EXCEPT ![p] = @ + 1]
    /\ meta' = [meta EXCEPT ![g].seq = calls[p] + 1, ![g].i = i]
    /\ pc' = [pc EXCEPT ![g] = "ret"]
    /\ UNCHANGED <<now, machineID, pid, issued, carried, steps, monotone>>
    /\ UNCHANGED <<initVars, codecVars>>

\* New(): return id.
NewReturn(g) ==
    /\ pc[g] = "ret"
    /\ issued' = Append(issued, [id |-> cur[g], proc |-> ProcOf(g), began |-> meta[g].began,
                                 sec |-> meta[g].sec, seq |-> meta[g].seq, i |-> meta[g].i])
    /\ pc' = [pc EXCEPT ![g] = "idle"]
    /\ UNCHANGED <<now, objectIDCounter, machineID, pid, cur, meta, calls, carried,
                   steps, monotone>>
    /\ UNCHANGED <<initVars, codecVars>>

\* A loop of n complete New() calls of process p whose results are dropped
\* (for pb.Next() { _ = New() }), taken in one step within the current second.
Burst(p, n) ==
    /\ boot[p].st = "ready"
    /\ calls[p] + n <= MaxHistory
    /\ objectIDCounter' = [objectIDCounter EXCEPT ![p] = AddUint32(@, n)]
    /\ calls' = [calls EXCEPT ![p] = @ + n]
    /\ carried' = [carried EXCEPT ![p][Uint32(now)] = @ + n]
    /\ UNCHANGED <<now, machineID, pid, pc, cur, meta, issued, steps, monotone>>
    /\ UNCHANGED <<initVars, codecVars>>

Next ==
    \/ \E t \in ClockValues : Tick(t)
    \/ \E t \in ClockValues : ClockReset(t)
    \/ \E g \in DOMAIN pc : NewBegin(g)
    \/ \E g \in DOMAIN pc : NewIncrement(g)
    \/ \E g \in DOMAIN pc : NewReturn(g)
    \/ \E p \in DOMAIN calls, n \in BurstSizes : Burst(p, n)

Spec == Init /\ [][Next]_vars

NextCross ==
    \/ \E t \in ClockValues : Tick(t)
    \/ \E t \in ClockValues : ClockReset(t)
    \/ \E g \in DOMAIN pc : NewBegin(g)
    \/ \E g \in DOMAIN pc : NewIncrement(g)
    \/ \E g \in DOMAIN pc : NewReturn(g)

SpecCross == InitCross /\ [][NextCross]_vars

----------------------------------------------------------------------------
(* The initialisation of the package *)

BootProcs == {"p1"}
BootGoroutines == {<<"p1", 1>>}

\* Process ids os.Getpid() may return: 0xe428 and 2^16.
BootPids == {58408, 65536}

\* Triples of bytes rand.Reader may deliver at initialisation.
BootBytes == RandBytes \cup { <<0, 0, 0>>, <<255, 255, 255>> }

\* What a read of 3 bytes from rand.Reader may do.
RandOutcomes == [b : BootBytes, err : {FALSE}] \cup {[b |-> <<>>, err |-> TRUE]}

\* What os.Hostname() may return.
HostOutcomes ==
    [name : {"localhost", "xid-test"}, err : {FALSE}] \cup {[name |-> "", err |-> TRUE]}

\* md5 of a hostname: hw := md5.New(); hw.Write([]byte(hostname)); hw.Sum(nil)
Md5Sum(hostname) ==
    CASE hostname = "localhost" ->
            <<66, 26, 169, 14, 7, 159, 163, 38, 182, 73, 79, 129, 42, 209, 62, 121>>
      [] hostname = "xid-test" ->
            <<104, 132, 132, 233, 233, 207, 160, 37, 88, 230, 151, 196, 108, 172, 9, 138>>

\* copy(id, d) into id := make([]byte, 3)
Copy3(d) == [k \in 1..3 |-> d[k]]

\* Mutant: without a hostname the identity stays as make([]byte, 3) left it, the
\* random source is not read.
readMachineID_NoFallback(host, rnd) ==
    IF ~host.err THEN [id |-> Copy3(Md5Sum(host.name)), panic |-> FALSE, read |-> FALSE]
    ELSE [id |-> <<0, 0, 0>>, panic |-> FALSE, read |-> FALSE]

\* readMachineID(), given what os.Hostname() returns and what rand.Reader would
\* do: the identity, whether it panics, and whether rand.Reader was read.
readMachineID(host, rnd) ==
    IF ~host.err THEN [id |-> Copy3(Md5Sum(host.name)), panic |-> FALSE, read |-> FALSE]
    ELSE IF rnd.err THEN [id |-> <<0, 0, 0>>, panic |-> TRUE, read |-> TRUE]
    ELSE [id |-> rnd.b, panic |-> FALSE, read |-> TRUE]

\* The process starts: no package variable is initialised yet.
InitBoot ==
    /\ now = FirstClock
    /\ objectIDCounter = [p \in BootProcs |-> <<0, 0>>]
    /\ machineID = [p \in BootProcs |-> <<>>]
    /\ pid \in [BootProcs -> BootPids]
    /\ seed = [p \in BootProcs |-> <<0, 0>>]
    /\ boot = [p \in BootProcs |-> NotBooted]
    /\ pc = [g \in BootGoroutines |-> "idle"]
    /\ cur = [g \in BootGoroutines |-> nilID]
    /\ meta = [g \in BootGoroutines |-> NoMeta]
    /\ issued = <<>>
    /\ calls = [p \in BootProcs |-> 0]
    /\ carried = [p \in BootProcs |-> [ts \in Timestamps |-> 0]]
    /\ steps = 0
    /\ monotone = TRUE
    /\ CodecIdle
    /\ ImportIdle

\* var objectIDCounter = randInt(): it panics if rand.Reader fails.
RandIntInit(p, rnd) ==
    /\ boot[p].st = "start"
    /\ IF rnd.err
       THEN /\ boot' = [boot EXCEPT ![p].st = "panic", ![p].by = "randInt"]
            /\ UNCHANGED <<objectIDCounter, seed>>
       ELSE /\ boot' = [boot EXCEPT ![p].st = "seeded"]
            /\ objectIDCounter' = [objectIDCounter EXCEPT ![p] = randInt(rnd.b)]
            /\ seed' = [seed EXCEPT ![p] = randInt(rnd.b)]
    /\ UNCHANGED <<now, machineID, pid, pc, cur, meta, issued, calls, carried, steps,
                   monotone>>
    /\ UNCHANGED codecVars

\* var machineID = readMachineID()
ReadMachineIDInit(p, host, rnd) ==
    LET r == readMachineID(host, rnd) IN
    /\ boot[p].st = "seeded"
    /\ boot' = [boot EXCEPT ![p] =
                  [st |-> IF r.panic THEN "panic" ELSE "ready",
                   by |-> IF r.panic THEN "readMachineID" ELSE "",
                   asked |-> TRUE, hostname |-> host.name, hostErr |-> host.err,
                   fallback |-> IF r.read THEN rnd.b ELSE <<>>,
                   randErr |-> r.read /\ rnd.err]]
    /\ machineID' = IF r.panic THEN machineID ELSE [machineID EXCEPT ![p] = r.id]
    /\ UNCHANGED <<now, objectIDCounter, pid, pc, cur, meta, issued, calls, carried,
                   steps, monotone, seed>>
    /\ UNCHANGED codecVars

NextBoot ==
    \/ \E p \in DOMAIN boot, rnd \in RandOutcomes : RandIntInit(p, rnd)
    \/ \E p \in DOMAIN boot, host \in HostOutcomes, rnd \in RandOutcomes :
          ReadMachineIDInit(p, host, rnd)
    \/ \E t \in ClockValues : Tick(t)
    \/ \E t \in ClockValues : ClockReset(t)
    \/ \E g \in DOMAIN pc : NewBegin(g)
    \/ \E g \in DOMAIN pc : NewIncrement(g)
    \/ \E g \in DOMAIN pc : NewReturn(g)

SpecBoot == InitBoot /\ [][NextBoot]_vars

----------------------------------------------------------------------------
(* The codec: text form *)

\* No process in the picture.
GenIdle ==
    /\ now = FirstClock
    /\ objectIDCounter = <<>>
    /\ machineID = <<>>
    /\ pid = <<>>
    /\ pc = <<>>
    /\ cur = <<>>
    /\ meta = <<>>
    /\ issued = <<>>
    /\ calls = <<>>
    /\ carried = <<>>
    /\ steps = 0
    /\ monotone = TRUE
    /\ seed = <<>>
    /\ boot = <<>>

InitCodec ==
    /\ GenIdle
    /\ ImportIdle
    /\ src \in SampleIDs
    /\ other = nilID
    /\ txt \in SampleTexts
    /\ from = "input"
    /\ got = NoResult
    /\ cmp = NoCmp

\* txt = src.String()
StringCall ==
    /\ txt' = MarshalText(src)
    /\ from' = "String"
    /\ got' = NoResult
    /\ recv' = nilID
    /\ rerr' = NoErr
    /\ UNCHANGED <<src, other, cmp, val, parts, list, order>>
    /\ UNCHANGED genVars

\* s2[i] = c on the text String() returned.
Tamper(k, c) ==
    /\ from = "String"
    /\ k \in 1..Len(txt)
    /\ txt[k] # c
    /\ txt' = [txt EXCEPT ![k] = c]
    /\ from' = "tampered"
    /\ got' = NoResult
    /\ recv' = nilID
    /\ rerr' = NoErr
    /\ UNCHANGED <<src, other, cmp, val, parts, list, order>>
    /\ UNCHANGED genVars

\* id, err := FromString(txt)
FromStringCall ==
    /\ got' = FromString(txt)
    /\ UNCHANGED <<src, other, txt, from, cmp>>
    /\ UNCHANGED <<importVars, genVars>>

\* id := r0; err := id.UnmarshalText(txt)
UnmarshalTextCall(r0) ==
    LET r == UnmarshalText(r0, txt) IN
    /\ recv' = r.id
    /\ rerr' = [err |-> r.err, was |-> r0]
    /\ UNCHANGED <<src, other, txt, from, got, cmp, val, parts, list, order>>
    /\ UNCHANGED genVars

NextCodec ==
    \/ StringCall
    \/ \E k \in 1..trimLen, c \in TamperChars : Tamper(k, c)
    \/ FromStringCall
    \/ \E r0 \in Receivers : UnmarshalTextCall(r0)

SpecCodec == InitCodec /\ [][NextCodec]_vars

----------------------------------------------------------------------------
(* The codec: order *)

InitOrder ==
    /\ GenIdle
    /\ ImportIdle
    /\ src \in SampleIDs
    /\ other \in SampleIDs
    /\ txt = <<>>
    /\ from = "none"
    /\ got = NoResult
    /\ cmp = NoCmp

\* src.Compare(other)
CompareCall ==
    /\ cmp' = [cmp EXCEPT !.ids = {Compare(src, other)}]
    /\ UNCHANGED <<src, other, txt, from, got>>
    /\ UNCHANGED <<importVars, genVars>>

\* src.String() against other.String()
CompareStrings ==
    /\ cmp' = [cmp EXCEPT !.texts = {TextCompare(MarshalText(src), MarshalText(other))}]
    /\ UNCHANGED <<src, other, txt, from, got>>
    /\ UNCHANGED <<importVars, genVars>>

\* (Time, Machine, Pid, Counter) of src against those of other
CompareFields ==
    /\ cmp' = [cmp EXCEPT !.fields = {FieldCompare(src, other)}]
    /\ UNCHANGED <<src, other, txt, from, got>>
    /\ UNCHANGED <<importVars, genVars>>

NextOrder ==
    \/ CompareCall
    \/ CompareStrings
    \/ CompareFields

SpecOrder == InitOrder /\ [][NextOrder]_vars

----------------------------------------------------------------------------
(* The codec: binary import and the database adapter *)

\* id.IsNil(), NilID(), id.Bytes() and FromBytes(b) of package xid.
IsNil(id) == id = nilID

NilID == [k \in 1..rawLen |-> 0]

Bytes(id) == [k \in 1..rawLen |-> id[k]]

FromBytes(b) ==
    IF Len(b) # rawLen THEN [id |-> nilID, err |-> "ErrInvalidID"]
    ELSE [id |-> [k \in 1..rawLen |-> b[k]], err |-> "nil"]

\* xidb.ID.Value(): nil for the nil ID, else the 12 bytes.
Value(id) ==
    IF IsNil(id) THEN [kind |-> "nil", b |-> <<>>]
    ELSE [kind |-> "bytes", b |-> Bytes(id)]

\* Mutant: the error of FromBytes is dropped and its ID assigned.
Scan_ErrDropped(id, value) ==
    CASE value.kind = "bytes" -> [id |-> FromBytes(value.b).id, err |-> "nil"]
      [] value.kind = "nil" -> [id |-> NilID, err |-> "nil"]
      [] OTHER -> [id |-> id, err |-> "xid: scanning unsupported type: " \o value.kind]

\* (id *xidb.ID) Scan(value): the receiver afterwards and the error returned.
Scan(id, value) ==
    CASE value.kind = "bytes" ->
            LET r == FromBytes(value.b)
            IN  IF r.err # "nil" THEN [id |-> id, err |-> r.err]
                ELSE [id |-> r.id, err |-> "nil"]
      [] value.kind = "nil" -> [id |-> NilID, err |-> "nil"]
      [] OTHER -> [id |-> id, err |-> "xid: scanning unsupported type: " \o value.kind]

\* The values the tests hand to FromBytes and Scan: make([]byte, n) for n = 11,
\* 12 and 13, []byte{0x01}, nil, and the int 1.
SampleValues ==
    { [kind |-> "bytes", b |-> [k \in 1..11 |-> 0]],
      [kind |-> "bytes", b |-> [k \in 1..12 |-> 0]],
      [kind |-> "bytes", b |-> [k \in 1..13 |-> 0]],
      [kind |-> "bytes", b |-> <<1>>],
      [kind |-> "nil", b |-> <<>>],
      [kind |-> "int", b |-> <<>>] }

InitImport ==
    /\ GenIdle
    /\ src \in SampleIDs \cup {TestID, TestID2}
    /\ other = nilID
    /\ txt = <<>>
    /\ from = "input"
    /\ got = NoResult
    /\ cmp = NoCmp
    /\ recv = nilID
    /\ rerr = NoErr
    /\ val \in SampleValues
    /\ parts = NoParts
    /\ list = <<>>
    /\ order = <<>>

\* val = src.Bytes()
BytesCall ==
    /\ val' = [kind |-> "bytes", b |-> Bytes(src)]
    /\ from' = "Bytes"
    /\ got' = NoResult
    /\ recv' = nilID
    /\ rerr' = NoErr
    /\ UNCHANGED <<src, other, txt, cmp, parts, list, order>>
    /\ UNCHANGED genVars

\* val, _ = xidb.ID{src}.Value()
ValueCall ==
    /\ val' = Value(src)
    /\ from' = "Value"
    /\ got' = NoResult
    /\ recv' = nilID
    /\ rerr' = NoErr
    /\ UNCHANGED <<src, other, txt, cmp, parts, list, order>>
    /\ UNCHANGED genVars

\* id, err := FromBytes(val)
FromBytesCall ==
    /\ val.kind = "bytes"
    /\ got' = FromBytes(val.b)
    /\ UNCHANGED <<src, other, txt, from, cmp, recv, rerr, val, parts, list, order>>
    /\ UNCHANGED genVars

\* id := &xidb.ID{r0}; err := id.Scan(val)
ScanCall(r0) ==
    LET r == Scan(r0, val) IN
    /\ recv' = r.id
    /\ rerr' = [err |-> r.err, was |-> r0]
    /\ UNCHANGED <<src, other, txt, from, got, cmp, val, parts, list, order>>
    /\ UNCHANGED genVars

\* src.Time(), src.Machine(), src.Pid(), src.Counter()
PartsCall ==
    /\ parts' = [time |-> Time(src), machine |-> Machine(src), pid |-> Pid(src),
                 counter |-> Counter(src)]
    /\ UNCHANGED <<src, other, txt, from, got, cmp, recv, rerr, val, list, order>>
    /\ UNCHANGED genVars

NextImport ==
    \/ PartsCall
    \/ BytesCall
    \/ ValueCall
    \/ FromBytesCall
    \/ \E r0 \in Receivers : ScanCall(r0)

SpecImport == InitImport /\ [][NextImport]_vars

----------------------------------------------------------------------------
(* The codec: a slice of identifiers *)

\* The identifiers of IDList, and three more that differ from them in the last
\* byte only.
ListIDs ==
    { TestID,
      <<0, 0, 0, 0, 0, 0, 0, 0, 0, 0, 0, 0>>,
      TestID2,
      <<77, 136, 225, 91, 96, 244, 134, 228, 40, 65, 45, 202>>,
      <<0, 0, 0, 0, 0, 0, 0, 0, 0, 0, 0, 1>>,
      <<0, 0, 0, 0, 170, 187, 204, 221, 238, 0, 0, 0>> }

ListLen == 3

Pairs == (1..ListLen) \X (1..ListLen)

InitList ==
    /\ GenIdle
    /\ CodecIdle
    /\ recv = nilID
    /\ rerr = NoErr
    /\ val = NoValue
    /\ parts = NoParts
    /\ list \in [1..ListLen -> ListIDs]
    /\ order = [q \in Pairs |-> {}]

\* list[i].Compare(list[j]), as sorter(list).Less(i, j) makes it.
CompareAt(i, j) ==
    /\ order[<<i, j>>] = {}
    /\ order' = [order EXCEPT ![<<i, j>>] = {Compare(list[i], list[j])}]
    /\ UNCHANGED <<recv, rerr, val, parts, list>>
    /\ UNCHANGED <<src, other, txt, from, got, cmp>>
    /\ UNCHANGED genVars

NextList == \E q \in Pairs : CompareAt(q[1], q[2])

SpecList == InitList /\ [][NextList]_vars

----------------------------------------------------------------------------
(* Properties of the generator *)

Returned == DOMAIN issued

SameProc(i, j) == issued[i].proc = issued[j].proc

\* The call that returned issued[i] had returned when the call of issued[j] began.
Before(i, j) == i <= issued[j].began

\* Number of increments of the process's counter from one call to the other.
Apart(i, j) ==
    IF issued[i].seq <= issued[j].seq THEN issued[j].seq - issued[i].seq
                                      ELSE issued[i].seq - issued[j].seq

\* C1: while a process has made fewer than 2^24 calls of New(), in any
\* interleaving, the identifiers it returned carry pairwise distinct Counters.
C1_DistinctCounters ==
    \A i, j \in Returned :
        (i # j /\ SameProc(i, j) /\ calls[issued[i].proc] < 2^24)
            => Counter(issued[i].id) # Counter(issued[j].id)

\* Two overlapping calls, the later to increment being the first to return,
\* with the 24-bit counter wrapping between them.
C1_Witness ==
    \E i, j \in Returned :
        /\ i < j /\ SameProc(i, j) /\ ~Before(i, j)
        /\ issued[j].seq < issued[i].seq
        /\ Counter(issued[j].id) = 2^24 - 1
        /\ calls[issued[i].proc] < 2^24

\* C2 as stated: two identifiers of one process carrying the same Timestamp
\* differ, provided at most 2^24 identifiers carry that Timestamp, whatever the
\* clock does.
C2_AsStated ==
    \A i, j \in Returned :
        ( /\ i # j /\ SameProc(i, j)
          /\ Time(issued[i].id) = Time(issued[j].id)
          /\ carried[issued[i].proc][Time(issued[i].id)] <= 2^24 )
            => issued[i].id # issued[j].id

\* C2 (amended): two identifiers of one process carrying the same Timestamp
\* differ, provided the process made fewer than 2^24 calls of New() from the one
\* to the other.
C2_UniquePerSecond ==
    \A i, j \in Returned :
        ( /\ i # j /\ SameProc(i, j)
          /\ Time(issued[i].id) = Time(issued[j].id)
          /\ Apart(i, j) < 2^24 )
            => issued[i].id # issued[j].id

\* Two identifiers of the same second, less than a lap apart, in a process whose
\* counter has already gone round once.
C2_Witness ==
    \E i, j \in Returned :
        /\ i # j /\ SameProc(i, j)
        /\ Time(issued[i].id) = Time(issued[j].id)
        /\ Apart(i, j) < 2^24
        /\ calls[issued[i].proc] >= 2^24

\* C3: two calls of New() back to back in one process (the first returned before
\* the second began, no increment between theirs) return Counters c1 and
\* c2 = (c1 + 1) mod 2^24.
C3_BackToBack ==
    \A i, j \in Returned :
        (SameProc(i, j) /\ Before(i, j) /\ issued[j].seq = issued[i].seq + 1)
            => Counter(issued[j].id) = (Counter(issued[i].id) + 1) % 2^24

\* Back-to-back calls across the wrap: 2^24 - 1, then 0.
C3_Witness ==
    \E i, j \in Returned :
        /\ SameProc(i, j) /\ Before(i, j) /\ issued[j].seq = issued[i].seq + 1
        /\ Counter(issued[i].id) = 2^24 - 1
        /\ Counter(issued[j].id) = 0

\* C4 as stated: of two identifiers of one process carrying the same Timestamp,
\* the one New() returned first compares smaller.
C4_AsStated ==
    \A i, j \in Returned :
        (i < j /\ SameProc(i, j) /\ Time(issued[i].id) = Time(issued[j].id))
            => Compare(issued[i].id, issued[j].id) < 0

\* The process's counter passed no multiple of 2^24 from one call to the other.
SameLap(i, j) ==
    /\ issued[i].i[1] \div 256 = issued[j].i[1] \div 256
    /\ Apart(i, j) < 2^24

\* C4 (amended): if the call that returned A had returned before the call that
\* returned B began, both in one process and carrying the same Timestamp, and
\* the counter did not wrap between them, then Compare(A, B) < 0.
C4_CreationOrder ==
    \A i, j \in Returned :
        ( /\ SameProc(i, j) /\ Before(i, j)
          /\ Time(issued[i].id) = Time(issued[j].id)
          /\ SameLap(i, j) )
            => Compare(issued[i].id, issued[j].id) < 0

\* Two sequential calls in one second and one lap of the counter, with other
\* calls between them.
C4_Witness ==
    \E i, j \in Returned :
        /\ SameProc(i, j) /\ Before(i, j)
        /\ Time(issued[i].id) = Time(issued[j].id)
        /\ SameLap(i, j)
        /\ issued[j].seq > issued[i].seq + 1

\* C5 as stated: under a non-decreasing clock, an identifier generated in an
\* earlier clock second compares smaller, whichever processes generated the two.
C5_AsStated ==
    monotone =>
        \A i, j \in Returned :
            LimbLess(issued[i].sec, issued[j].sec)
                => Compare(issued[i].id, issued[j].id) < 0

\* A clock reading in [0, 2^32).
InUint32(t) == t[1] = 0

\* C5 (amended): the same, provided both clock readings lie in [0, 2^32), the
\* range of the Timestamp field.
C5_KSortable ==
    monotone =>
        \A i, j \in Returned :
            ( /\ LimbLess(issued[i].sec, issued[j].sec)
              /\ InUint32(issued[i].sec) /\ InUint32(issued[j].sec) )
                => Compare(issued[i].id, issued[j].id) < 0

\* An earlier identifier of one process and a later one of another process whose
\* Machine and Counter fields are both smaller.
C5_Witness ==
    /\ monotone
    /\ \E i, j \in Returned :
          /\ ~SameProc(i, j)
          /\ LimbLess(issued[i].sec, issued[j].sec)
          /\ InUint32(issued[i].sec) /\ InUint32(issued[j].sec)
          /\ LimbLess(Machine(issued[j].id), Machine(issued[i].id))
          /\ Counter(issued[j].id) < Counter(issued[i].id)

\* C6: every identifier a process returned carries the process's cached machine
\* identity and its process id (16 bits), so all of them agree on both fields;
\* the cache is what it was when each of them was made.
C6_SameIdentity ==
    /\ \A i \in Returned :
          /\ Machine(issued[i].id) = machineID[issued[i].proc]
          /\ Pid(issued[i].id) = pid[issued[i].proc] % 65536
    /\ \A i, j \in Returned :
          SameProc(i, j) =>
              /\ Machine(issued[i].id) = Machine(issued[j].id)
              /\ Pid(issued[i].id) = Pid(issued[j].id)

\* Two overlapping calls in different seconds, in a process whose pid needs more
\* than 16 bits.
C6_Witness ==
    \E i, j \in Returned :
        /\ i < j /\ SameProc(i, j) /\ ~Before(i, j)
        /\ Time(issued[i].id) # Time(issued[j].id)
        /\ pid[issued[i].proc] >= 65536

\* A uint32 and a 24-bit seed as numbers (used below 2^31 only).
ToInt(c) == c[1] * 65536 + c[2]

\* The low 24 bits of a uint32.
Low24(c) == (c[1] % 256) * 65536 + c[2]

AllIdle == \A g \in DOMAIN pc : pc[g] = "idle"

\* C18: the increment of New() is one atomic read-modify-write and no update is
\* lost: after k increments, in any interleaving, the shared counter is the seed
\* plus k, and the calls returned the Counters (seed + 1) mod 2^24, ...,
\* (seed + k) mod 2^24, the j-th increment giving the j-th of them and no two calls
\* the same j; once all calls followed have returned, every j has its call.
C18_AtomicIncrement ==
    /\ \A p \in DOMAIN calls : ToInt(objectIDCounter[p]) = ToInt(seed[p]) + calls[p]
    /\ \A i \in Returned :
          /\ issued[i].seq \in 1..calls[issued[i].proc]
          /\ Counter(issued[i].id) = (ToInt(seed[issued[i].proc]) + issued[i].seq) % 2^24
    /\ \A i, j \in Returned : (i # j /\ SameProc(i, j)) => issued[i].seq # issued[j].seq
    /\ \A p \in DOMAIN calls :
          (AllIdle /\ calls[p] = Len(issued))
              => {issued[i].seq : i \in Returned} = 1..calls[p]

\* Three calls, two of them overlapping and returning against the order of their
\* increments, the counter passing from 0xffffff to 0x1000000 on the way.
C18_Witness ==
    /\ AllIdle
    /\ Len(issued) = 3
    /\ \A p \in DOMAIN calls : calls[p] = 3
    /\ issued[1].seq > issued[2].seq
    /\ \E i \in Returned : Counter(issued[i].id) = 0

\* C19: New() composes the identifier from its inputs bit for bit: bytes 0..3 are
\* the clock reading modulo 2^32, bytes 4..6 the cached machine identity, bytes
\* 7..8 the process id modulo 2^16 and bytes 9..11 the low 24 bits of the counter
\* after the increment, each big-endian; the seed of the counter is in [0, 2^24).
C19_Composition ==
    /\ \A i \in Returned :
          LET r == issued[i] IN
          /\ Len(r.id) = 12
          /\ Time(r.id) = <<r.sec[2], r.sec[3]>>
          /\ Machine(r.id) = machineID[r.proc]
          /\ Pid(r.id) = pid[r.proc] % 65536
          /\ Counter(r.id) = Low24(r.i)
    /\ \A p \in DOMAIN seed : seed[p][1] \in 0..255 /\ seed[p][2] \in 0..65535

\* An identifier made at the clock reading 2^32 by a process whose pid needs more
\* than 16 bits and whose counter has gone beyond 24 bits.
C19_Witness ==
    \E i \in Returned :
        /\ issued[i].sec = <<1, 0, 0>>
        /\ pid[issued[i].proc] >= 65536
        /\ issued[i].i[1] >= 256

\* C17 as stated: New() never returns the nil identifier, for every clock
\* reading, cached machine identity, process id and counter state.
C17_AsStated ==
    \A i \in Returned : ~IsNil(issued[i].id)

\* C17 (amended): New() returns the nil identifier only if the clock reading is a
\* multiple of 2^32, the cached machine identity is three zero bytes, the process
\* id is a multiple of 2^16 and the counter after the increment is a multiple of
\* 2^24, all four at once; in every other case IsNil() is false.
C17_NilOnlyAllZero ==
    \A i \in Returned :
        LET r == issued[i] IN
        ( \/ <<r.sec[2], r.sec[3]>> # <<0, 0>>
          \/ machineID[r.proc] # <<0, 0, 0>>
          \/ pid[r.proc] % 65536 # 0
          \/ Low24(r.i) # 0 )
            => ~IsNil(r.id)

\* An identifier whose Timestamp, Process and Counter are all zero and that is
\* not nil, by its Machine bytes alone.
C17_Witness ==
    \E i \in Returned :
        /\ Time(issued[i].id) = <<0, 0>>
        /\ Pid(issued[i].id) = 0
        /\ Counter(issued[i].id) = 0
        /\ ~IsNil(issued[i].id)

----------------------------------------------------------------------------
(* Properties of the codec *)

\* C7: FromString(v.String()) returns v and a nil error, and v.String() is 20
\* characters, each of 0-9 or a-v.
C7_RoundTrip ==
    from = "String" =>
        /\ Len(txt) = 20
        /\ \A k \in 1..Len(txt) :
              (txt[k] >= 48 /\ txt[k] <= 57) \/ (txt[k] >= 97 /\ txt[k] <= 118)
        /\ got.err # "none" => got = [id |-> src, err |-> "nil"]

\* The round trip of an identifier whose last byte has every bit set.
C7_Witness ==
    /\ from = "String"
    /\ got = [id |-> src, err |-> "nil"]
    /\ src[12] = 255

\* C8 as stated: whatever text FromString accepts is the text of the identifier
\* it returns, and "c6e52g2mrqcjl44hf179" does not decode to a non-nil identifier.
C8_AsStated ==
    /\ got.err = "nil" => MarshalText(got.id) = txt
    /\ (txt = TextUnusedBits /\ got.err # "none") => got.id = nilID

\* C9: the sign of Compare(a, b) is the sign of the comparison of a.String() and
\* b.String() by character code.
C9_OrderPreserved ==
    \A x \in cmp.ids, y \in cmp.texts : x = y

\* Two identifiers that differ in the low bit of the last byte only, which the
\* last character of the text carries.
C9_Witness ==
    /\ cmp.ids = {-1} /\ cmp.texts = {-1}
    /\ \A k \in 1..11 : src[k] = other[k]
    /\ src[12] + 1 = other[12]

\* C10: Compare(a, b) is -1, 0 or 1, and is the lexicographic comparison of
\* (Timestamp, Machine, Process, Counter) of a with that of b.
C10_FieldOrder ==
    /\ cmp.ids \subseteq {-1, 0, 1}
    /\ \A x \in cmp.ids, y \in cmp.fields : x = y

\* Two identifiers with the same Timestamp and Machine, ordered by Process
\* against the order of their Counters.
C10_Witness ==
    /\ cmp.ids = {-1} /\ cmp.fields = {-1}
    /\ Time(src) = Time(other) /\ Machine(src) = Machine(other)
    /\ Pid(src) < Pid(other)
    /\ Counter(src) > Counter(other)

\* C11: Compare is a total order on identifiers: Compare(a, a) = 0,
\* Compare(a, b) = -Compare(b, a), Compare(a, b) = 0 only when a and b are the
\* same 12 bytes, and Compare(a, b) <= 0 with Compare(b, c) <= 0 implies
\* Compare(a, c) <= 0.
C11_TotalOrder ==
    \A i, j, k \in DOMAIN list :
        /\ \A x \in order[<<i, i>>] : x = 0
        /\ \A x \in order[<<i, j>>], y \in order[<<j, i>>] : x = -y
        /\ \A x \in order[<<i, j>>] : x = 0 => list[i] = list[j]
        /\ \A x \in order[<<i, j>>], y \in order[<<j, k>>], z \in order[<<i, k>>] :
              (x <= 0 /\ y <= 0) => z <= 0

\* Three identifiers in strictly increasing order, the first two differing in the
\* last byte only, compared in every direction.
C11_Witness ==
    /\ list # <<>>
    /\ \A q \in Pairs : order[q] # {}
    /\ order[<<1, 2>>] = {-1} /\ order[<<2, 3>>] = {-1} /\ order[<<1, 3>>] = {-1}
    /\ \A n \in 1..11 : list[1][n] = list[2][n]

\* A text of the wrong length, or with a character that is neither 0-9 nor a-v.
Rejectable(t) ==
    \/ Len(t) # 20
    \/ \E k \in 1..Len(t) : ~(t[k] \in 48..57 \/ t[k] \in 97..118)

\* C12: FromString and UnmarshalText reject with ErrInvalidID every text whose
\* length is not 20 and every text of 20 characters with a character outside 0-9
\* and a-v (upper case included), and no byte of such a text is decoded: FromString
\* returns the zero ID, UnmarshalText leaves its receiver as it was.
C12_Rejected ==
    Rejectable(txt) =>
        /\ got.err # "none" => got = [id |-> nilID, err |-> "ErrInvalidID"]
        /\ rerr.err # "none" => (rerr.err = "ErrInvalidID" /\ recv = rerr.was)

\* A text String() returned, whose last character was replaced by 'V', rejected
\* by FromString and by UnmarshalText on a receiver holding an identifier.
C12_Witness ==
    /\ from = "tampered" /\ Len(txt) = 20 /\ txt[20] = 86
    /\ src # nilID
    /\ got.err = "ErrInvalidID"
    /\ rerr.err = "ErrInvalidID" /\ rerr.was = TestID

\* C13 as stated: after every rejected text decode the identifier is the nil
\* identifier: the one FromString returns, and the receiver of UnmarshalText
\* whatever it held before the call.
C13_AsStated ==
    /\ got.err = "ErrInvalidID" => got.id = nilID
    /\ rerr.err = "ErrInvalidID" => recv = nilID

\* C14 as stated: every failure FromBytes and Scan report is the one sentinel
\* ErrInvalidID, whatever the cause; no other error value is returned.
C14_AsStated ==
    /\ got.err \in {"none", "nil", "ErrInvalidID"}
    /\ rerr.err \in {"none", "nil", "ErrInvalidID"}

\* C15: FromBytes(b) succeeds exactly when len(b) = 12 and then returns the
\* identifier whose bytes are b, so that FromBytes(id.Bytes()) is id; for any other
\* length it fails with ErrInvalidID.  Scan hands the outcome on: the receiver
\* takes the 12 bytes, or the error is returned and the receiver left alone.
C15_FromBytes ==
    val.kind = "bytes" =>
        /\ got.err # "none" =>
              /\ (got.err = "nil") = (Len(val.b) = 12)
              /\ got.err = "nil" => \A k \in 1..12 : got.id[k] = val.b[k]
              /\ got.err # "nil" => got.err = "ErrInvalidID"
              /\ from = "Bytes" => got = [id |-> src, err |-> "nil"]
        /\ rerr.err # "none" =>
              /\ (rerr.err = "nil") = (Len(val.b) = 12)
              /\ rerr.err = "nil" => (Len(recv) = 12 /\ \A k \in 1..12 : recv[k] = val.b[k])
              /\ rerr.err # "nil" => (rerr.err = "ErrInvalidID" /\ recv = rerr.was)

\* The bytes of a non-nil identifier imported again by FromBytes and by Scan into
\* a receiver that held another identifier.
C15_Witness ==
    /\ from = "Bytes" /\ src # nilID /\ src # TestID
    /\ got = [id |-> src, err |-> "nil"]
    /\ rerr = [err |-> "nil", was |-> TestID] /\ recv = src

\* C16: for every identifier, Time() is the big-endian 32-bit value of bytes 0..3,
\* Machine() is bytes 4..6, Pid() the big-endian 16-bit value of bytes 7..8 and
\* Counter() the big-endian 24-bit value of bytes 9..11, in [0, 2^24): written
\* back as New() writes them, the four values give the 12 bytes again.  On the nil
\* identifier they are the epoch, three zero bytes, 0 and 0; on the identifiers of
\* the tests, the values the tests list.
C16_FieldExtraction ==
    parts # NoParts =>
        /\ PutUint32(parts.time) = SubSeq(src, 1, 4)
        /\ parts.machine = SubSeq(src, 5, 7)
        /\ parts.pid \in 0..65535
        /\ PutPid(parts.pid) = SubSeq(src, 8, 9)
        /\ parts.counter \in 0..(2^24 - 1)
        /\ PutCounter(<<parts.counter \div 65536, parts.counter % 65536>>)
              = SubSeq(src, 10, 12)
        /\ src = nilID =>
              parts = [time |-> <<0, 0>>, machine |-> <<0, 0, 0>>, pid |-> 0,
                       counter |-> 0]
        /\ src = TestID =>
              parts = [time |-> <<19848, 57691>>, machine |-> <<96, 244, 134>>,
                       pid |-> 58408, counter |-> 4271561]
        /\ src = TestID2 =>
              parts = [time |-> <<0, 0>>, machine |-> <<170, 187, 204>>,
                       pid |-> 56814, counter |-> 1]

\* The fields of an identifier whose Timestamp, Process and Counter all have their
\* top bit set.
C16_Witness ==
    /\ parts # NoParts
    /\ parts.time[1] >= 32768
    /\ parts.pid >= 32768
    /\ parts.counter >= 2^23
    /\ src[12] = 0

====
